---- MODULE Spec2Model ----
(***************************************************************************)
(* Model of prefect.utilities.dispatch: the process-wide type registry     *)
(* _TYPE_REGISTRIES and the four functions that read and write it.         *)
(*                                                                         *)
(* Python values are records [tag, v]; a call's outcome is a record that   *)
(* says whether it returned or which exception it raised.                  *)
(***************************************************************************)
EXTENDS Naturals, Sequences, FiniteSets, TLC

VARIABLES TYPE_REGISTRIES, written, last

\* TYPE_REGISTRIES: the module's _TYPE_REGISTRIES, base class -> (key -> class)
\* written: history of the (base, key) slots that a registration has assigned
\* last: the most recent call and its outcome
vars == <<TYPE_REGISTRIES, written, last>>

(***************************************************************************)
(* Python values                                                           *)
(***************************************************************************)
None == [tag |-> "None", v |-> ""]
Str(s) == [tag |-> "str", v |-> s]
Int == [tag |-> "int", v |-> "1"]
ClassMethod(body) == [tag |-> "classmethod", v |-> body]
TypeObj(c) == [tag |-> "type", v |-> c]
\* marker: the class body does not assign __dispatch_key__
Absent == [tag |-> "absent", v |-> ""]

(***************************************************************************)
(* The class hierarchy the functions are exercised on.                     *)
(*   class Base:            __dispatch_key__ = classmethod: cls.__name__.lower() *)
(*   class Mid(Base)        class Foo(Mid)                                 *)
(*   class Alias(Foo, NoKey): __dispatch_key__ = "foo"                     *)
(*   class Null(Base):      __dispatch_key__ = None                        *)
(*   class NoKey:           (no __dispatch_key__)                          *)
(*   class IntKey:          __dispatch_key__ = 1                           *)
(*   class NullFn:          __dispatch_key__ = classmethod: None           *)
(*   class IntFn(IntKey):   __dispatch_key__ = classmethod: 1              *)
(*   class Tagged:          __dispatch_key__ = "tagged"                    *)
(*   class StrFn(Tagged):   __dispatch_key__ = classmethod: "const"        *)
(*   class NullChild(Null)                                                 *)
(***************************************************************************)
Classes == {"object", "Base", "Mid", "Foo", "Alias", "Null", "NoKey",
            "IntKey", "NullFn", "IntFn", "Tagged", "StrFn", "NullChild"}

\* the classes the registration decorators and lookups are applied to
RegClasses == {"Base", "Mid", "Foo", "Alias", "NoKey", "IntKey"}

\* cls.mro(): Python's C3 linearisation of the hierarchy above
mro(c) ==
    CASE c = "object" -> <<"object">>
      [] c = "Base"   -> <<"Base", "object">>
      [] c = "Mid"    -> <<"Mid", "Base", "object">>
      [] c = "Foo"    -> <<"Foo", "Mid", "Base", "object">>
      [] c = "Alias"  -> <<"Alias", "Foo", "Mid", "Base", "NoKey", "object">>
      [] c = "Null"   -> <<"Null", "Base", "object">>
      [] c = "NoKey"  -> <<"NoKey", "object">>
      [] c = "IntKey" -> <<"IntKey", "object">>
      [] c = "NullFn" -> <<"NullFn", "object">>
      [] c = "IntFn"  -> <<"IntFn", "IntKey", "object">>
      [] c = "Tagged" -> <<"Tagged", "object">>
      [] c = "StrFn"  -> <<"StrFn", "Tagged", "object">>
      [] c = "NullChild" -> <<"NullChild", "Null", "Base", "object">>

\* what each class body assigns to __dispatch_key__
ClassDict(c) ==
    CASE c = "Base"   -> ClassMethod("name_lower")
      [] c = "Alias"  -> Str("foo")
      [] c = "Null"   -> None
      [] c = "IntKey" -> Int
      [] c = "NullFn" -> ClassMethod("none")
      [] c = "IntFn"  -> ClassMethod("int")
      [] c = "Tagged" -> Str("tagged")
      [] c = "StrFn"  -> ClassMethod("const")
      [] OTHER        -> Absent

\* cls.__name__.lower()
NameLower(c) ==
    CASE c = "object" -> "object"
      [] c = "Base"   -> "base"
      [] c = "Mid"    -> "mid"
      [] c = "Foo"    -> "foo"
      [] c = "Alias"  -> "alias"
      [] c = "Null"   -> "null"
      [] c = "NoKey"  -> "nokey"
      [] c = "IntKey" -> "intkey"
      [] c = "NullFn" -> "nullfn"
      [] c = "IntFn"  -> "intfn"
      [] c = "Tagged" -> "tagged"
      [] c = "StrFn"  -> "strfn"
      [] c = "NullChild" -> "nullchild"

\* the dispatch keys callers look up: those of the hierarchy and one that no
\* class has
Keys == {"base", "mid", "foo", "missing-key"}

\* a class, or an instance of it
Cls(c) == [cls |-> c, inst |-> FALSE]
Instance(c) == [cls |-> c, inst |-> TRUE]
Objects == {Cls(c) : c \in Classes} \cup {Instance(c) : c \in Classes}

(***************************************************************************)
(* Outcomes of a call                                                      *)
(***************************************************************************)
Return(val) == [exc |-> "none", msg |-> "", type_name |-> "", value |-> val]
Raise(e, m, tn) == [exc |-> e, msg |-> m, type_name |-> tn, value |-> None]
\* the call has been made and has not finished
Pending == [exc |-> "pending", msg |-> "", type_name |-> "", value |-> None]

RECURSIVE FirstWith(_, _, _)
\* index of the first element of s, from i on, that is in set S; 0 if none
FirstWith(s, i, S) ==
    IF i > Len(s) THEN 0
    ELSE IF s[i] \in S THEN i
    ELSE FirstWith(s, i + 1, S)

\* getattr(cls_or_instance, "__dispatch_key__", None): the attribute of the
\* first class in the MRO whose body assigns it
getattr_dispatch_key(obj) ==
    LET m == mro(obj.cls)
        i == FirstWith(m, 1, {c \in Classes : ClassDict(c) # Absent})
    IN  IF i = 0 THEN None ELSE ClassDict(m[i])

callable(val) == val.tag = "classmethod"

\* dispatch_key(): a classmethod is bound to the class it was fetched through
call(val, obj) ==
    CASE val.v = "name_lower" -> Str(NameLower(obj.cls))
      [] val.v = "none"       -> None
      [] val.v = "int"        -> Int
      [] val.v = "const"      -> Str("const")

isinstance_str(val) == val.tag = "str"

\* variant of get_registry_for_type: when no class of the MRO owns a
\* registry, some existing registry is handed out instead of None
get_registry_for_type_any(registries, cls) ==
    LET m == mro(cls)
        i == FirstWith(m, 1, DOMAIN registries)
    IN  IF i # 0 THEN TypeObj(m[i])
        ELSE IF DOMAIN registries = {} THEN None
        ELSE TypeObj(CHOOSE b \in DOMAIN registries : TRUE)

\* the first registry among the class and its bases, None if there is none
get_registry_for_type(registries, cls) ==
    LET m == mro(cls)
        i == FirstWith(m, 1, DOMAIN registries)
    IN  IF i = 0 THEN None ELSE TypeObj(m[i])

\* variant of get_dispatch_key: the str check is skipped when allow_missing
get_dispatch_key_lenient(cls_or_instance, allow_missing) ==
    LET dispatch_key == getattr_dispatch_key(cls_or_instance)
        type_name == cls_or_instance.cls
    IN  IF dispatch_key = None
        THEN IF allow_missing
             THEN Return(None)
             ELSE Raise("ValueError", "does not define a value for __dispatch_key__", type_name)
        ELSE LET resolved == IF callable(dispatch_key)
                             THEN call(dispatch_key, cls_or_instance)
                             ELSE dispatch_key
             IN  IF allow_missing
                 THEN Return(resolved)
                 ELSE IF ~isinstance_str(resolved)
                 THEN Raise("TypeError", "a type of str is required", type_name)
                 ELSE Return(resolved)

get_dispatch_key(cls_or_instance, allow_missing) ==
    LET dispatch_key == getattr_dispatch_key(cls_or_instance)
        type_name == cls_or_instance.cls
    IN  IF dispatch_key = None
        THEN IF allow_missing
             THEN Return(None)
             ELSE Raise("ValueError", "does not define a value for __dispatch_key__", type_name)
        ELSE LET resolved == IF callable(dispatch_key)
                             THEN call(dispatch_key, cls_or_instance)
                             ELSE dispatch_key
             IN  IF allow_missing /\ resolved = None
                 THEN Return(None)
                 ELSE IF ~isinstance_str(resolved)
                 THEN Raise("TypeError", "a type of str is required", type_name)
                 ELSE Return(resolved)

\* variant of setdefault: _TYPE_REGISTRIES[cls] = {}, a fresh subregistry on
\* every call
setdefault_reset(registries, cls) ==
    [c \in DOMAIN registries \cup {cls} |->
        IF c = cls THEN <<>> ELSE registries[c]]

\* dict.setdefault(key, {})
setdefault(registries, cls) ==
    IF cls \in DOMAIN registries
    THEN registries
    ELSE [c \in DOMAIN registries \cup {cls} |->
            IF c = cls THEN <<>> ELSE registries[c]]

\* variant of setitem: registry.setdefault(key, cls), an existing entry is kept
setitem_keep(registries, base, key, cls) ==
    IF key \in DOMAIN registries[base]
    THEN registries
    ELSE [registries EXCEPT ![base] =
            [k \in DOMAIN registries[base] \cup {key} |->
                IF k = key THEN cls ELSE registries[base][k]]]

\* registry[key] = cls, on the subregistry owned by base
setitem(registries, base, key, cls) ==
    [registries EXCEPT ![base] =
        [k \in DOMAIN registries[base] \cup {key} |->
            IF k = key THEN cls ELSE registries[base][k]]]

\* variant of register_base_type: the class is put in the first registry of
\* its MRO, as register_type does, after its own subregistry is ensured
register_base_type_nearest(registries, cls) ==
    LET base_key == get_dispatch_key(Cls(cls), TRUE)
        nearest == get_registry_for_type(registries, cls)
        registry == setdefault(registries, cls)
        target == IF nearest = None THEN cls ELSE nearest.v
    IN  IF base_key.exc # "none"
        THEN [registries |-> registry, outcome |-> base_key]
        ELSE IF base_key.value # None
        THEN [registries |-> setitem(registry, target, base_key.value.v, cls),
              outcome |-> Return(TypeObj(cls))]
        ELSE [registries |-> registry, outcome |-> Return(TypeObj(cls))]

\* variant of register_base_type: a base without dispatch key is entered
\* under its lowercased class name
register_base_type_named(registries, cls) ==
    LET registry == setdefault(registries, cls)
        base_key == get_dispatch_key(Cls(cls), TRUE)
    IN  IF base_key.exc # "none"
        THEN [registries |-> registry, outcome |-> base_key]
        ELSE IF base_key.value # None
        THEN [registries |-> setitem(registry, cls, base_key.value.v, cls),
              outcome |-> Return(TypeObj(cls))]
        ELSE [registries |-> setitem(registry, cls, NameLower(cls), cls),
              outcome |-> Return(TypeObj(cls))]

\* the registry after the call and the call's outcome
register_base_type(registries, cls) ==
    LET registry == setdefault(registries, cls)
        base_key == get_dispatch_key(Cls(cls), TRUE)
    IN  IF base_key.exc # "none"
        THEN [registries |-> registry, outcome |-> base_key]
        ELSE IF base_key.value # None
        THEN [registries |-> setitem(registry, cls, base_key.value.v, cls),
              outcome |-> Return(TypeObj(cls))]
        ELSE [registries |-> registry, outcome |-> Return(TypeObj(cls))]

\* variant of register_type: the registry of the least-derived registered
\* class of the MRO is used instead of the first one
register_type_root(registries, cls) ==
    LET m == mro(cls)
        idx == {i \in 1..Len(m) : m[i] \in DOMAIN registries}
    IN  IF idx = {}
        THEN [registries |-> registries,
              outcome |-> Raise("ValueError", "No registry found for type", cls)]
        ELSE LET root == m[CHOOSE i \in idx : \A j \in idx : j <= i]
                 key == get_dispatch_key(Cls(cls), FALSE)
             IN  IF key.exc # "none"
                 THEN [registries |-> registries, outcome |-> key]
                 ELSE [registries |-> setitem(registries, root, key.value.v, cls),
                       outcome |-> Return(TypeObj(cls))]

\* variant of register_type: the dispatch key is computed before the registry
\* is looked up
register_type_key_first(registries, cls) ==
    LET key == get_dispatch_key(Cls(cls), FALSE)
        registry == get_registry_for_type(registries, cls)
    IN  IF key.exc # "none"
        THEN [registries |-> registries, outcome |-> key]
        ELSE IF registry = None
        THEN [registries |-> registries,
              outcome |-> Raise("ValueError", "No registry found for type", cls)]
        ELSE [registries |-> setitem(registries, registry.v, key.value.v, cls),
              outcome |-> Return(TypeObj(cls))]

register_type(registries, cls) ==
    LET registry == get_registry_for_type(registries, cls)
    IN  IF registry = None
        THEN [registries |-> registries,
              outcome |-> Raise("ValueError", "No registry found for type", cls)]
        ELSE LET key == get_dispatch_key(Cls(cls), FALSE)
             IN  IF key.exc # "none"
                 THEN [registries |-> registries, outcome |-> key]
                 ELSE [registries |-> setitem(registries, registry.v, key.value.v, cls),
                       outcome |-> Return(TypeObj(cls))]

\* variant of lookup_type: registry.get(dispatch_key, cls), the class itself
\* is the default
lookup_type_default(registries, cls, dispatch_key) ==
    LET registry == get_registry_for_type(registries, cls)
    IN  IF registry = None
        THEN Raise("AttributeError", "NoneType object has no attribute get", "")
        ELSE IF dispatch_key \notin DOMAIN registries[registry.v]
        THEN Return(TypeObj(cls))
        ELSE Return(TypeObj(registries[registry.v][dispatch_key]))

lookup_type(registries, cls, dispatch_key) ==
    LET registry == get_registry_for_type(registries, cls)
    IN  IF registry = None
        THEN Raise("AttributeError", "NoneType object has no attribute get", "")
        ELSE IF dispatch_key \notin DOMAIN registries[registry.v]
        THEN Raise("KeyError", "No class found in registry for dispatch key", "")
        ELSE Return(TypeObj(registries[registry.v][dispatch_key]))

(***************************************************************************)
(* The state machine: any sequence of calls from any caller.               *)
(***************************************************************************)
\* a call, its outcome, and what it did to the registry: whether it added a
\* subregistry to the outer mapping, and the value its assignment replaced
Call(op, obj, key, allow, out, created, replaced) ==
    [op |-> op, obj |-> obj, key |-> key, allow |-> allow, outcome |-> out,
     created |-> created, replaced |-> replaced]

\* registries[base].get(key)
dict_get(registries, base, key) ==
    IF base \in DOMAIN registries /\ key \in DOMAIN registries[base]
    THEN TypeObj(registries[base][key])
    ELSE None

\* @register_base_type applied to a class
RegisterBaseType(cls) ==
    LET r == register_base_type(TYPE_REGISTRIES, cls)
        base_key == get_dispatch_key(Cls(cls), TRUE)
        assigns == r.outcome.exc = "none" /\ base_key.value # None
    IN  /\ TYPE_REGISTRIES' = r.registries
        /\ written' = IF assigns
                      THEN written \cup {<<cls, base_key.value.v>>}
                      ELSE written
        /\ last' = Call("register_base_type", Cls(cls), "", FALSE, r.outcome,
                        cls \notin DOMAIN TYPE_REGISTRIES,
                        IF assigns
                        THEN dict_get(TYPE_REGISTRIES, cls, base_key.value.v)
                        ELSE None)

\* @register_type applied to a class
RegisterType(cls) ==
    LET r == register_type(TYPE_REGISTRIES, cls)
        assigns == r.outcome.exc = "none"
        base == get_registry_for_type(TYPE_REGISTRIES, cls).v
        key == get_dispatch_key(Cls(cls), FALSE).value.v
    IN  /\ TYPE_REGISTRIES' = r.registries
        /\ written' = IF assigns THEN written \cup {<<base, key>>} ELSE written
        /\ last' = Call("register_type", Cls(cls), "", FALSE, r.outcome, FALSE,
                        IF assigns
                        THEN dict_get(TYPE_REGISTRIES, base, key)
                        ELSE None)

\* variant of LookupType: the registry is fetched with
\* _TYPE_REGISTRIES.setdefault(cls, {}), which creates it when it is missing
LookupType_creating(cls, dispatch_key) ==
    /\ TYPE_REGISTRIES' = setdefault(TYPE_REGISTRIES, cls)
    /\ written' = written
    /\ last' = Call("lookup_type", Cls(cls), dispatch_key, FALSE,
                    lookup_type(setdefault(TYPE_REGISTRIES, cls), cls, dispatch_key),
                    FALSE, None)

LookupType(cls, dispatch_key) ==
    /\ last' = Call("lookup_type", Cls(cls), dispatch_key, FALSE,
                    lookup_type(TYPE_REGISTRIES, cls, dispatch_key), FALSE, None)
    /\ UNCHANGED <<TYPE_REGISTRIES, written>>

\* a caller's get_dispatch_key(cls_or_instance, allow_missing) runs
GetDispatchKey ==
    /\ last.op = "get_dispatch_key"
    /\ last.outcome = Pending
    /\ last' = [last EXCEPT !.outcome = get_dispatch_key(last.obj, last.allow)]
    /\ UNCHANGED <<TYPE_REGISTRIES, written>>

\* the module is imported: _TYPE_REGISTRIES = {}
Init ==
    /\ TYPE_REGISTRIES = <<>>
    /\ written = {}
    /\ last = Call("import", Cls("object"), "", FALSE, Return(None), FALSE, None)

Next ==
    \/ \E cls \in RegClasses : RegisterBaseType(cls)
    \/ \E cls \in RegClasses : RegisterType(cls)
    \/ \E cls \in RegClasses, dispatch_key \in Keys : LookupType(cls, dispatch_key)

Spec == Init /\ [][Next]_vars

\* get_dispatch_key alone, on every class and instance of the hierarchy
InitKey ==
    /\ TYPE_REGISTRIES = <<>>
    /\ written = {}
    /\ \E obj \in Objects, allow_missing \in BOOLEAN :
          last = Call("get_dispatch_key", obj, "", allow_missing, Pending, FALSE, None)

NextKey == GetDispatchKey

SpecKey == InitKey /\ [][NextKey]_vars

TypeOK ==
    /\ DOMAIN TYPE_REGISTRIES \subseteq Classes
    /\ \A b \in DOMAIN TYPE_REGISTRIES :
          \A k \in DOMAIN TYPE_REGISTRIES[b] : TYPE_REGISTRIES[b][k] \in Classes

(***************************************************************************)
(* Vocabulary of the properties                                            *)
(***************************************************************************)
\* the class and its bases
Ancestors(c) == {mro(c)[i] : i \in 1..Len(mro(c))}

\* b is the first class of c's MRO that owns a subregistry
IsNearestBase(registries, b, c) ==
    \E i \in 1..Len(mro(c)) :
        /\ mro(c)[i] = b
        /\ b \in DOMAIN registries
        /\ \A j \in 1..(i - 1) : mro(c)[j] \notin DOMAIN registries

\* the class resolves to a string dispatch key
HasKey(c) == get_dispatch_key(Cls(c), FALSE).exc = "none"
KeyOf(c) == get_dispatch_key(Cls(c), FALSE).value.v

Returned == last.outcome.exc = "none"
MissingKeyError(out) ==
    out.exc = "ValueError" /\ out.msg = "does not define a value for __dispatch_key__"
RegistryNotFoundError(out) ==
    out.exc = "ValueError" /\ out.msg = "No registry found for type"

(***************************************************************************)
(* C1                                                                      *)
(***************************************************************************)
\* C1 as stated: right after register_type(S) has returned, lookup_type(B, k)
\* returns S for EVERY registered base B among S's ancestors, k being S's
\* dispatch key, also when another registered base lies between S and B.
C1_EveryRegisteredAncestor ==
    (last.op = "register_type" /\ Returned) =>
        \A B \in DOMAIN TYPE_REGISTRIES \cap Ancestors(last.obj.cls) :
            lookup_type(TYPE_REGISTRIES, B, KeyOf(last.obj.cls))
                = Return(TypeObj(last.obj.cls))

\* C1 amended: right after register_type(S) has returned, lookup_type(B, k)
\* returns S for the registered base B that is first in S's MRO (S included),
\* k being S's dispatch key.
C1_NearestRegisteredAncestor ==
    (last.op = "register_type" /\ Returned) =>
        \A B \in DOMAIN TYPE_REGISTRIES :
            IsNearestBase(TYPE_REGISTRIES, B, last.obj.cls) =>
                lookup_type(TYPE_REGISTRIES, B, KeyOf(last.obj.cls))
                    = Return(TypeObj(last.obj.cls))

\* register_type(Foo) has returned while both Mid and Base own a subregistry
C1_Witness ==
    /\ last.op = "register_type" /\ Returned
    /\ last.obj.cls = "Foo"
    /\ {"Mid", "Base"} \subseteq DOMAIN TYPE_REGISTRIES
    /\ "Foo" \notin DOMAIN TYPE_REGISTRIES
    /\ lookup_type(TYPE_REGISTRIES, "Mid", "foo") = Return(TypeObj("Foo"))

(***************************************************************************)
(* C2                                                                      *)
(***************************************************************************)
\* C2: a register_type or register_base_type call that raises leaves
\* _TYPE_REGISTRIES exactly as it was before the call.
C2_FailedCallLeavesRegistry ==
    [][(last'.op \in {"register_type", "register_base_type"}
            /\ last'.outcome.exc # "none")
        => TYPE_REGISTRIES' = TYPE_REGISTRIES]_vars

(***************************************************************************)
(* C3                                                                      *)
(***************************************************************************)
\* C3: lookup_type(T, key) on a type none of whose ancestors (T included)
\* owns a subregistry raises the KeyError that an absent key raises.
C3_NoRegistryIsKeyError ==
    (/\ last.op = "lookup_type"
     /\ Ancestors(last.obj.cls) \cap DOMAIN TYPE_REGISTRIES = {})
        => last.outcome.exc = "KeyError"

(***************************************************************************)
(* C4                                                                      *)
(***************************************************************************)
\* C4: for a registered base B and a key that no registration ever assigned
\* in B's subregistry, lookup_type(B, key) raises KeyError and returns no type.
C4_UnregisteredKeyIsKeyError ==
    (/\ last.op = "lookup_type"
     /\ last.obj.cls \in DOMAIN TYPE_REGISTRIES
     /\ <<last.obj.cls, last.key>> \notin written)
        => /\ last.outcome.exc = "KeyError"
           /\ last.outcome.value = None

\* lookup_type(Base, "missing-key") was called while Base's subregistry holds
\* other keys
C4_Witness ==
    /\ last.op = "lookup_type"
    /\ last.obj.cls = "Base" /\ last.key = "missing-key"
    /\ "Base" \in DOMAIN TYPE_REGISTRIES
    /\ DOMAIN TYPE_REGISTRIES["Base"] # {}
    /\ last.outcome.exc = "KeyError"

(***************************************************************************)
(* C5                                                                      *)
(***************************************************************************)
\* C5: register_type(S) while no class of S's MRO owns a subregistry raises
\* the "No registry found" ValueError, whether or not S has a dispatch key,
\* and the registry is unchanged.
C5_NoRegisteredAncestor ==
    [][(/\ last'.op = "register_type"
        /\ Ancestors(last'.obj.cls) \cap DOMAIN TYPE_REGISTRIES = {})
        => /\ RegistryNotFoundError(last'.outcome)
           /\ TYPE_REGISTRIES' = TYPE_REGISTRIES
           /\ written' = written]_vars

\* register_type(NoKey), a class without dispatch key, failed for want of a
\* registry while other bases were registered
C5_Witness ==
    /\ last.op = "register_type"
    /\ last.obj.cls = "NoKey"
    /\ ~HasKey("NoKey")
    /\ Ancestors("NoKey") \cap DOMAIN TYPE_REGISTRIES = {}
    /\ DOMAIN TYPE_REGISTRIES # {}
    /\ RegistryNotFoundError(last.outcome)

(***************************************************************************)
(* C6                                                                      *)
(***************************************************************************)
\* the object has no resolvable non-null key: __dispatch_key__ is absent, is
\* None, or is invocable and returns None
Unresolvable(obj) ==
    LET attr == getattr_dispatch_key(obj)
    IN  \/ attr = None
        \/ callable(attr) /\ call(attr, obj) = None

\* C6: get_dispatch_key on an object without resolvable non-null key raises
\* the missing-dispatch-key ValueError when allow_missing is false, and
\* returns None in exactly those cases when allow_missing is true.
C6_MissingKey ==
    (last.op = "get_dispatch_key" /\ last.outcome # Pending) =>
        /\ (Unresolvable(last.obj) /\ ~last.allow) => MissingKeyError(last.outcome)
        /\ last.allow => (last.outcome = Return(None) <=> Unresolvable(last.obj))

(***************************************************************************)
(* C7                                                                      *)
(***************************************************************************)
\* the attribute itself, or what it returns when it is invocable
ResolvedValue(obj) ==
    LET attr == getattr_dispatch_key(obj)
    IN  IF callable(attr) THEN call(attr, obj) ELSE attr

\* C7: get_dispatch_key raises TypeError whenever the resolved value is
\* neither None nor a str, for either value of allow_missing, and returns the
\* resolved value itself when it is a str.
C7_TypeCheck ==
    (last.op = "get_dispatch_key" /\ last.outcome # Pending) =>
        LET resolved == ResolvedValue(last.obj)
        IN  /\ (resolved # None /\ resolved.tag # "str")
                   => (last.outcome.exc = "TypeError" /\ last.outcome.value = None)
            /\ resolved.tag = "str" => last.outcome = Return(resolved)

\* get_dispatch_key(IntFn, allow_missing=True) has raised TypeError: the key
\* is invocable and returns an int
C7_Witness ==
    /\ last.op = "get_dispatch_key"
    /\ last.obj = Cls("IntFn") /\ last.allow
    /\ callable(getattr_dispatch_key(last.obj))
    /\ ResolvedValue(last.obj) = Int
    /\ last.outcome.exc = "TypeError"

(***************************************************************************)
(* C8                                                                      *)
(***************************************************************************)
\* the class declares a string dispatch key
DeclaresKey(c) ==
    /\ get_dispatch_key(Cls(c), TRUE).exc = "none"
    /\ get_dispatch_key(Cls(c), TRUE).value # None

\* C8: after register_base_type(B) on a base B with declared key k,
\* lookup_type(B, k) returns B; B sits in its own subregistry, also when a
\* base class of B is registered already, and every other subregistry is
\* unchanged.
C8_BaseWithKey ==
    [][(last'.op = "register_base_type" /\ DeclaresKey(last'.obj.cls)) =>
        LET B == last'.obj.cls
            k == KeyOf(B)
        IN  /\ last'.outcome = Return(TypeObj(B))
            /\ lookup_type(TYPE_REGISTRIES', B, k) = Return(TypeObj(B))
            /\ DOMAIN TYPE_REGISTRIES' = DOMAIN TYPE_REGISTRIES \cup {B}
            /\ TYPE_REGISTRIES'[B][k] = B
            /\ \A A \in DOMAIN TYPE_REGISTRIES \ {B} :
                  TYPE_REGISTRIES'[A] = TYPE_REGISTRIES[A]]_vars

\* register_base_type(Mid) has created Mid's subregistry while its base class
\* Base was registered already
C8_Witness ==
    /\ last.op = "register_base_type" /\ Returned
    /\ last.obj.cls = "Mid" /\ last.created
    /\ "Base" \in DOMAIN TYPE_REGISTRIES
    /\ "mid" \notin DOMAIN TYPE_REGISTRIES["Base"]
    /\ lookup_type(TYPE_REGISTRIES, "Mid", "mid") = Return(TypeObj("Mid"))

(***************************************************************************)
(* C9                                                                      *)
(***************************************************************************)
\* C9: register_base_type(B) on an unregistered base B without declared
\* dispatch key adds B to the outer mapping with an empty subregistry,
\* enters B under no key, and leaves every other subregistry unchanged.
C9_BaseWithoutKey ==
    [][(/\ last'.op = "register_base_type"
        /\ last'.obj.cls \notin DOMAIN TYPE_REGISTRIES
        /\ get_dispatch_key(last'.obj, TRUE) = Return(None)) =>
        LET B == last'.obj.cls
        IN  /\ last'.outcome = Return(TypeObj(B))
            /\ DOMAIN TYPE_REGISTRIES' = DOMAIN TYPE_REGISTRIES \cup {B}
            /\ DOMAIN TYPE_REGISTRIES'[B] = {}
            /\ \A A \in DOMAIN TYPE_REGISTRIES :
                  TYPE_REGISTRIES'[A] = TYPE_REGISTRIES[A]
            /\ written' = written]_vars

\* register_base_type(NoKey) has created an empty subregistry next to a
\* non-empty one
C9_Witness ==
    /\ last.op = "register_base_type" /\ Returned
    /\ last.obj.cls = "NoKey" /\ last.created
    /\ get_dispatch_key(Cls("NoKey"), TRUE) = Return(None)
    /\ DOMAIN TYPE_REGISTRIES["NoKey"] = {}
    /\ \E A \in DOMAIN TYPE_REGISTRIES : DOMAIN TYPE_REGISTRIES[A] # {}

(***************************************************************************)
(* C10                                                                     *)
(***************************************************************************)
\* C10: register_type(S2), while the subregistry of base B that S2 resolves
\* to holds another type S1 under S2's dispatch key k, returns without
\* error; the subregistry keeps one entry for k, now S2, and
\* lookup_type(B, k) returns S2.
C10_LastRegistrationWins ==
    [][(last'.op = "register_type" /\ HasKey(last'.obj.cls)) =>
        LET S2 == last'.obj.cls
            k == KeyOf(S2)
        IN  \A B \in DOMAIN TYPE_REGISTRIES :
                (/\ IsNearestBase(TYPE_REGISTRIES, B, S2)
                 /\ k \in DOMAIN TYPE_REGISTRIES[B]
                 /\ TYPE_REGISTRIES[B][k] # S2) =>
                    /\ last'.outcome = Return(TypeObj(S2))
                    /\ DOMAIN TYPE_REGISTRIES'[B] = DOMAIN TYPE_REGISTRIES[B]
                    /\ TYPE_REGISTRIES'[B][k] = S2
                    /\ lookup_type(TYPE_REGISTRIES', B, k) = Return(TypeObj(S2))]_vars

\* register_type(Alias) has replaced Foo under the key "foo" in Mid's
\* subregistry, Foo having been entered there by register_type
C10_Witness ==
    /\ last.op = "register_type" /\ Returned
    /\ last.obj.cls = "Alias"
    /\ last.replaced = TypeObj("Foo")
    /\ "Foo" \notin DOMAIN TYPE_REGISTRIES
    /\ IsNearestBase(TYPE_REGISTRIES, "Mid", "Alias")
    /\ TYPE_REGISTRIES["Mid"]["foo"] = "Alias"

(***************************************************************************)
(* C11                                                                     *)
(***************************************************************************)
\* a second register_base_type(B) right after the call that led to the
\* current state would change nothing and end as the first did
RepeatChangesNothing(registries, B, out) ==
    /\ register_base_type(registries, B).registries = registries
    /\ register_base_type(registries, B).outcome = out

\* C11 as stated: register_base_type(B) twice in a row leaves the registry as
\* one call does, and a call on an already registered B keeps every entry
\* of B's subregistry as it was.
C11_RepeatKeepsEveryEntry ==
    [][last'.op = "register_base_type" =>
        LET B == last'.obj.cls
        IN  /\ RepeatChangesNothing(TYPE_REGISTRIES', B, last'.outcome)
            /\ B \in DOMAIN TYPE_REGISTRIES =>
                  \A k \in DOMAIN TYPE_REGISTRIES[B] :
                      /\ k \in DOMAIN TYPE_REGISTRIES'[B]
                      /\ TYPE_REGISTRIES'[B][k] = TYPE_REGISTRIES[B][k]]_vars

\* C11 amended: register_base_type(B) twice in a row leaves the registry as
\* one call does, and a call on an already registered B keeps every key of
\* B's subregistry and every entry under a key other than B's own dispatch
\* key; the entry under B's own key is B again, whatever it held.
C11_RepeatKeepsOtherKeys ==
    [][last'.op = "register_base_type" =>
        LET B == last'.obj.cls
        IN  /\ RepeatChangesNothing(TYPE_REGISTRIES', B, last'.outcome)
            /\ B \in DOMAIN TYPE_REGISTRIES =>
                  \A k \in DOMAIN TYPE_REGISTRIES[B] :
                      /\ k \in DOMAIN TYPE_REGISTRIES'[B]
                      /\ TYPE_REGISTRIES'[B][k] =
                            IF DeclaresKey(B) /\ k = KeyOf(B)
                            THEN B
                            ELSE TYPE_REGISTRIES[B][k]]_vars

\* register_base_type(Base) was repeated on a subregistry that holds the
\* subtypes Mid and Foo, and they are still there
C11_Witness ==
    /\ last.op = "register_base_type" /\ Returned
    /\ last.obj.cls = "Base" /\ ~last.created
    /\ last.replaced = TypeObj("Base")
    /\ TYPE_REGISTRIES["Base"] = [base |-> "Base", mid |-> "Mid", foo |-> "Foo"]

(***************************************************************************)
(* Composite filters (prefect.orion.schemas.filters): the validation run   *)
(* when a filter object is constructed.  The filter types are those the    *)
(* tests construct; a field a type does not declare is always None.        *)
(***************************************************************************)
\* largest timestamp given to before_ / after_
MaxTime == 2

List(v) == [tag |-> "list", v |-> v]
Bool(v) == [tag |-> "bool", v |-> v]
\* an optional timestamp: unset, or the instant t
NoTime == [set |-> FALSE, t |-> 0]
Time(t) == [set |-> TRUE, t |-> t]

TagsFilters == {"FlowFilterTags", "FlowRunFilterTags", "TaskRunFilterTags"}
IdsFilters == {"FlowRunFilterDeploymentIds", "FlowRunFilterParentTaskRunIds"}
TimeFilters == {"FlowRunFilterStartTime", "TaskRunFilterStartTime",
                "FlowRunFilterNextScheduledStartTime",
                "FlowRunFilterExpectedStartTime"}
FilterTypes == {"MyNewFilter"} \cup TagsFilters \cup IdsFilters \cup TimeFilters

\* the constraint fields a filter type declares
Declares(T) ==
    IF T = "MyNewFilter" THEN {"foo_", "bar_"}
    ELSE IF T \in TagsFilters THEN {"all_", "is_null_"}
    ELSE IF T \in IdsFilters THEN {"any_", "is_null_"}
    ELSE {"before_", "after_"}

\* the values a caller gives to a field; None is "not given"
IntValues == {None, Int}
ListValues == {None, List(""), List("foo")}
BoolValues == {None, Bool("True"), Bool("False")}
TimeValues == {NoTime} \cup {Time(t) : t \in 0..MaxTime}

\* the keyword arguments of a constructor call T(...)
FilterArgs ==
    {a \in [type : FilterTypes, foo_ : IntValues, bar_ : IntValues,
            all_ : ListValues, any_ : ListValues, is_null_ : BoolValues,
            before_ : TimeValues, after_ : TimeValues] :
        /\ "foo_" \notin Declares(a.type) => a.foo_ = None
        /\ "bar_" \notin Declares(a.type) => a.bar_ = None
        /\ "all_" \notin Declares(a.type) => a.all_ = None
        /\ "any_" \notin Declares(a.type) => a.any_ = None
        /\ "is_null_" \notin Declares(a.type) => a.is_null_ = None
        /\ "before_" \notin Declares(a.type) => a.before_ = NoTime
        /\ "after_" \notin Declares(a.type) => a.after_ = NoTime}

\* the declared fields of the call that are not None
FieldsSet(a) ==
    {f \in Declares(a.type) :
        CASE f = "foo_"     -> a.foo_ # None
          [] f = "bar_"     -> a.bar_ # None
          [] f = "all_"     -> a.all_ # None
          [] f = "any_"     -> a.any_ # None
          [] f = "is_null_" -> a.is_null_ # None
          [] f = "before_"  -> a.before_.set
          [] f = "after_"   -> a.after_.set}

ValidationError(m, T) == Raise("ValidationError", m, T)

\* variant of check_at_least_one_operator: any() taken for all(), one None
\* field is enough to fail
check_at_least_one_operator_any(a) ==
    IF FieldsSet(a) # Declares(a.type)
    THEN ValidationError("Prefect Filter must have at least one operator with arguments", a.type)
    ELSE Return(None)

\* rule "at least one operator": every declared field is None
check_at_least_one_operator(a) ==
    IF FieldsSet(a) = {}
    THEN ValidationError("Prefect Filter must have at least one operator with arguments", a.type)
    ELSE Return(None)

\* variant of check_inclusion_and_is_null: the list is tested for truth, so
\* an empty list passes
check_inclusion_and_is_null_truthy(a) ==
    IF {"all_", "is_null_"} \subseteq Declares(a.type)
          /\ a.all_ \notin {None, List("")} /\ a.is_null_ # None
    THEN ValidationError("Cannot provide Prefect Filter all_ with is_null_ = True", a.type)
    ELSE IF {"any_", "is_null_"} \subseteq Declares(a.type)
          /\ a.any_ \notin {None, List("")} /\ a.is_null_ # None
    THEN ValidationError("Cannot provide Prefect Filter any_ with is_null_ = True", a.type)
    ELSE Return(None)

\* rule "exclusive operator vs is-null", for the types that declare both
check_inclusion_and_is_null(a) ==
    IF {"all_", "is_null_"} \subseteq Declares(a.type)
          /\ a.all_ # None /\ a.is_null_ # None
    THEN ValidationError("Cannot provide Prefect Filter all_ with is_null_ = True", a.type)
    ELSE IF {"any_", "is_null_"} \subseteq Declares(a.type)
          /\ a.any_ # None /\ a.is_null_ # None
    THEN ValidationError("Cannot provide Prefect Filter any_ with is_null_ = True", a.type)
    ELSE Return(None)

\* variant of check_before_after: <= for <, equal bounds are rejected
check_before_after_nonstrict(a) ==
    IF {"before_", "after_"} \subseteq Declares(a.type)
          /\ a.before_.set /\ a.after_.set /\ a.before_.t <= a.after_.t
    THEN ValidationError("Cannot provide Prefect Filter where before_ is less than after_", a.type)
    ELSE Return(None)

\* rule "ordered range", for the types that declare before_ and after_
check_before_after(a) ==
    IF {"before_", "after_"} \subseteq Declares(a.type)
          /\ a.before_.set /\ a.after_.set /\ a.before_.t < a.after_.t
    THEN ValidationError("Cannot provide Prefect Filter where before_ is less than after_", a.type)
    ELSE Return(None)

\* T(...): the rules are evaluated once all fields are set; the first
\* violation is raised, otherwise the filter object is returned
construct_filter(a) ==
    IF check_at_least_one_operator(a).exc # "none"
    THEN check_at_least_one_operator(a)
    ELSE IF check_inclusion_and_is_null(a).exc # "none"
    THEN check_inclusion_and_is_null(a)
    ELSE IF check_before_after(a).exc # "none"
    THEN check_before_after(a)
    ELSE Return(TypeObj(a.type))

\* a caller's constructor call runs
ConstructFilter ==
    /\ last.op = "construct_filter"
    /\ last.outcome = Pending
    /\ last' = [last EXCEPT !.outcome = construct_filter(last.obj)]
    /\ UNCHANGED <<TYPE_REGISTRIES, written>>

\* filter construction alone, on every type and every combination of fields
InitFilter ==
    /\ TYPE_REGISTRIES = <<>>
    /\ written = {}
    /\ \E a \in FilterArgs :
          last = Call("construct_filter", a, "", FALSE, Pending, FALSE, None)

NextFilter == ConstructFilter

SpecFilter == InitFilter /\ [][NextFilter]_vars

Constructed == last.op = "construct_filter" /\ last.outcome # Pending
AtLeastOneError(out) ==
    /\ out.exc = "ValidationError"
    /\ out.msg = "Prefect Filter must have at least one operator with arguments"
ExclusiveError(out) ==
    /\ out.exc = "ValidationError"
    /\ out.msg \in {"Cannot provide Prefect Filter all_ with is_null_ = True",
                    "Cannot provide Prefect Filter any_ with is_null_ = True"}
OrderError(out) ==
    /\ out.exc = "ValidationError"
    /\ out.msg = "Cannot provide Prefect Filter where before_ is less than after_"

\* the call sets an inclusion operator together with is_null_
SetsInclusionAndIsNull(a) ==
    /\ a.is_null_ # None
    /\ a.all_ # None \/ a.any_ # None
\* the call sets before_ earlier than after_
SetsBeforeEarlier(a) ==
    a.before_.set /\ a.after_.set /\ a.before_.t < a.after_.t

(***************************************************************************)
(* C12                                                                     *)
(***************************************************************************)
\* C12 as stated: construction fails with the "at least one operator"
\* validation error if and only if every constraint field is None, and it
\* succeeds with any non-empty subset of the fields set.
C12_AnySubsetSucceeds ==
    Constructed =>
        /\ AtLeastOneError(last.outcome) <=> FieldsSet(last.obj) = {}
        /\ FieldsSet(last.obj) # {} => last.outcome = Return(TypeObj(last.obj.type))

\* C12 amended: construction fails with the "at least one operator"
\* validation error if and only if every constraint field is None; with a
\* non-empty subset of the fields set it succeeds, unless the set fields are
\* an inclusion operator together with is_null_, or before_ earlier than
\* after_.
C12_SubsetSucceedsUnlessOtherRule ==
    Constructed =>
        /\ AtLeastOneError(last.outcome) <=> FieldsSet(last.obj) = {}
        /\ (/\ FieldsSet(last.obj) # {}
            /\ ~SetsInclusionAndIsNull(last.obj)
            /\ ~SetsBeforeEarlier(last.obj))
              => last.outcome = Return(TypeObj(last.obj.type))

\* MyNewFilter(foo_=1, bar_=1) was constructed
C12_Witness ==
    /\ Constructed
    /\ last.obj.type = "MyNewFilter"
    /\ FieldsSet(last.obj) = {"foo_", "bar_"}
    /\ last.outcome = Return(TypeObj("MyNewFilter"))

(***************************************************************************)
(* C13                                                                     *)
(***************************************************************************)
\* C13: for a filter type with an inclusion operator (all_ or any_) and
\* is_null_, construction fails with a validation error whenever is_null_
\* and the inclusion operator are both set, an empty list included; with
\* only one of the two set the rule does not fail.
C13_InclusionExcludesIsNull ==
    (Constructed /\ last.obj.type \in TagsFilters \cup IdsFilters) =>
        /\ SetsInclusionAndIsNull(last.obj) => ExclusiveError(last.outcome)
        /\ Cardinality(FieldsSet(last.obj)) = 1
              => last.outcome = Return(TypeObj(last.obj.type))

\* FlowFilterTags(all_=[], is_null_=True) was rejected
C13_Witness ==
    /\ Constructed
    /\ last.obj.type = "FlowFilterTags"
    /\ last.obj.all_ = List("") /\ last.obj.is_null_ = Bool("True")
    /\ ExclusiveError(last.outcome)
    /\ last.outcome.type_name = "FlowFilterTags"

(***************************************************************************)
(* C14                                                                     *)
(***************************************************************************)
\* C14 as stated: for a filter type with before_ and after_, construction
\* fails with a validation error exactly when both are set and before_ is
\* earlier than after_; it succeeds with equal bounds, with before_ later,
\* and with only one of the two set.
C14_FailsExactlyWhenEarlier ==
    (Constructed /\ last.obj.type \in TimeFilters) =>
        /\ last.outcome.exc = "ValidationError" <=> SetsBeforeEarlier(last.obj)
        /\ (/\ FieldsSet(last.obj) # {}
            /\ ~SetsBeforeEarlier(last.obj))
              => last.outcome = Return(TypeObj(last.obj.type))

\* C14 amended: construction fails with the "before_ is less than after_"
\* validation error exactly when both are set and before_ is earlier than
\* after_; it succeeds with equal bounds, with before_ later, and with only
\* one of the two set.  (With neither set it fails too, by the "at least one
\* operator" rule.)
C14_OrderErrorExactlyWhenEarlier ==
    (Constructed /\ last.obj.type \in TimeFilters) =>
        /\ OrderError(last.outcome) <=> SetsBeforeEarlier(last.obj)
        /\ (/\ FieldsSet(last.obj) # {}
            /\ ~SetsBeforeEarlier(last.obj))
              => last.outcome = Return(TypeObj(last.obj.type))
        /\ FieldsSet(last.obj) = {} => AtLeastOneError(last.outcome)

\* FlowRunFilterStartTime(before_=t, after_=t) was constructed
C14_Witness ==
    /\ Constructed
    /\ last.obj.type = "FlowRunFilterStartTime"
    /\ last.obj.before_.set /\ last.obj.after_.set
    /\ last.obj.before_.t = last.obj.after_.t
    /\ last.outcome = Return(TypeObj("FlowRunFilterStartTime"))

(***************************************************************************)
(* C15                                                                     *)
(***************************************************************************)
\* C15: a register_type(S) that returns adds no base to the outer mapping;
\* it assigns S under S's dispatch key in the subregistry of the first class
\* of S's MRO (S included) that owns one, and every other subregistry and
\* every other key is unchanged.
C15_RegisterTypeFrame ==
    [][(last'.op = "register_type" /\ last'.outcome.exc = "none") =>
        LET S == last'.obj.cls
            k == KeyOf(S)
        IN  /\ DOMAIN TYPE_REGISTRIES' = DOMAIN TYPE_REGISTRIES
            /\ \A B \in DOMAIN TYPE_REGISTRIES :
                  IF IsNearestBase(TYPE_REGISTRIES, B, S)
                  THEN /\ DOMAIN TYPE_REGISTRIES'[B] = DOMAIN TYPE_REGISTRIES[B] \cup {k}
                       /\ TYPE_REGISTRIES'[B][k] = S
                       /\ \A j \in DOMAIN TYPE_REGISTRIES[B] \ {k} :
                             TYPE_REGISTRIES'[B][j] = TYPE_REGISTRIES[B][j]
                  ELSE TYPE_REGISTRIES'[B] = TYPE_REGISTRIES[B]
            /\ \E B \in DOMAIN TYPE_REGISTRIES : IsNearestBase(TYPE_REGISTRIES, B, S)]_vars

\* register_type(Alias) has added the key "foo" to Mid's subregistry only,
\* while Base and NoKey, further along Alias's MRO, own subregistries too
C15_Witness ==
    /\ last.op = "register_type" /\ Returned
    /\ last.obj.cls = "Alias" /\ last.replaced = None
    /\ DOMAIN TYPE_REGISTRIES = {"Mid", "Base", "NoKey"}
    /\ TYPE_REGISTRIES["Mid"]["foo"] = "Alias"
    /\ "foo" \notin DOMAIN TYPE_REGISTRIES["Base"]
    /\ DOMAIN TYPE_REGISTRIES["NoKey"] = {}

C17_RegistryOnlyGrows ==
    [][TYPE_REGISTRIES' # TYPE_REGISTRIES =>
       /\ DOMAIN TYPE_REGISTRIES \subseteq DOMAIN TYPE_REGISTRIES'
       /\ \A B \in DOMAIN TYPE_REGISTRIES :
             /\ DOMAIN TYPE_REGISTRIES[B] \subseteq DOMAIN TYPE_REGISTRIES'[B]
             /\ \A k \in Keys :
                   lookup_type(TYPE_REGISTRIES, B, k).exc = "none" =>
                       /\ lookup_type(TYPE_REGISTRIES', B, k).exc = "none"
                       /\ lookup_type(TYPE_REGISTRIES', B, k)
                              # lookup_type(TYPE_REGISTRIES, B, k) =>
                             /\ last'.op \in {"register_type", "register_base_type"}
                             /\ last'.outcome.exc = "none"
                             /\ DeclaresKey(last'.obj.cls)
                             /\ KeyOf(last'.obj.cls) = k
                             /\ lookup_type(TYPE_REGISTRIES', B, k)
                                    = Return(TypeObj(last'.obj.cls))]_vars

\* register_type(Alias) has changed what lookup_type(Base, "foo") returns,
\* from Foo to Alias, and the keys "base" and "mid" are still there
C17_Witness ==
    /\ last.op = "register_type" /\ Returned
    /\ last.obj.cls = "Alias" /\ last.replaced = TypeObj("Foo")
    /\ DOMAIN TYPE_REGISTRIES = {"Base"}
    /\ TYPE_REGISTRIES["Base"] = [base |-> "Base", mid |-> "Mid", foo |-> "Alias"]

(***************************************************************************)
(* C18                                                                     *)
(***************************************************************************)
\* the call made registers a type other than S under
\* the key k
RegistersOtherUnder(k, S, made) ==
    /\ made.op \in {"register_type", "register_base_type"}
    /\ made.outcome.exc = "none"
    /\ made.obj.cls # S
    /\ DeclaresKey(made.obj.cls) /\ KeyOf(made.obj.cls) = k

\* the registry shows that register_type(S) has succeeded and that no other
\* type was registered under S's key since: S owns no subregistry, sits in
\* one of its bases' under its key, and no other type with that key sits
\* anywhere
RegisteredAndAlone(registries, S) ==
    /\ HasKey(S)
    /\ S \notin DOMAIN registries
    /\ \E B \in DOMAIN registries : dict_get(registries, B, KeyOf(S)) = TypeObj(S)
    /\ \A B \in DOMAIN registries :
          dict_get(registries, B, KeyOf(S)) \in {None, TypeObj(S)}

\* C18 as stated: once register_type(S) has succeeded with key k,
\* lookup_type(S, k) returns S after every later register_base_type or
\* register_type call, as long as no other type is registered under k.
C18_RoundTripSurvivesRegistrations ==
    [][last'.op \in {"register_type", "register_base_type"} =>
       \A S \in RegClasses :
        (/\ RegisteredAndAlone(TYPE_REGISTRIES, S)
         /\ ~RegistersOtherUnder(KeyOf(S), S, last'))
            => lookup_type(TYPE_REGISTRIES', S, KeyOf(S)) = Return(TypeObj(S))]_vars

\* the first registry of S's MRO is, after the step, the one it was before,
\* or S's own
NearestBaseKept(S) ==
    \A B \in DOMAIN TYPE_REGISTRIES' :
        IsNearestBase(TYPE_REGISTRIES', B, S) =>
            B = S \/ IsNearestBase(TYPE_REGISTRIES, B, S)

\* C18 amended: right after register_type(S) has succeeded with key k,
\* lookup_type(S, k) returns S, and it still does after every later
\* register_base_type or register_type call that neither registers another
\* type under k nor registers as a base a class that comes before, in S's
\* MRO, the base whose subregistry S is found in (S itself excepted).
C18_RoundTripWhileNearestBaseKept ==
    [][last'.op \in {"register_type", "register_base_type"} =>
       /\ (last'.op = "register_type" /\ last'.outcome.exc = "none") =>
              lookup_type(TYPE_REGISTRIES', last'.obj.cls, KeyOf(last'.obj.cls))
                  = Return(TypeObj(last'.obj.cls))
       /\ \A S \in {c \in RegClasses : HasKey(c)} :
            (/\ lookup_type(TYPE_REGISTRIES, S, KeyOf(S)) = Return(TypeObj(S))
             /\ lookup_type(TYPE_REGISTRIES', S, KeyOf(S)) # Return(TypeObj(S)))
                => \/ RegistersOtherUnder(KeyOf(S), S, last')
                   \/ ~NearestBaseKept(S)]_vars

\* Foo was entered in Base's subregistry by register_type, Mid was registered
\* by register_type after it, and lookup_type(Foo, "foo") returns Foo
C18_Witness ==
    /\ last.op = "register_type" /\ Returned
    /\ last.obj.cls = "Mid" /\ last.replaced = None
    /\ RegisteredAndAlone(TYPE_REGISTRIES, "Foo")
    /\ DOMAIN TYPE_REGISTRIES = {"Base"}
    /\ lookup_type(TYPE_REGISTRIES, "Foo", KeyOf("Foo")) = Return(TypeObj("Foo"))

(***************************************************************************)
(* C19                                                                     *)
(***************************************************************************)
\* C19: every type held in the subregistry of a base B is B or a descendant
\* of B, so a lookup_type(B, k) on a registered base B that returns, returns
\* B or a subtype of B.
C19_EntriesDescendFromBase ==
    /\ \A B \in DOMAIN TYPE_REGISTRIES :
          \A k \in DOMAIN TYPE_REGISTRIES[B] :
              B \in Ancestors(TYPE_REGISTRIES[B][k])
    /\ (/\ last.op = "lookup_type"
        /\ last.obj.cls \in DOMAIN TYPE_REGISTRIES
        /\ Returned)
          => last.obj.cls \in Ancestors(last.outcome.value.v)

\* lookup_type(Mid, "foo") has returned Alias, a subclass of Mid, from Mid's
\* subregistry
C19_Witness ==
    /\ last.op = "lookup_type" /\ Returned
    /\ last.obj.cls = "Mid" /\ last.key = "foo"
    /\ "Mid" \in DOMAIN TYPE_REGISTRIES
    /\ last.outcome.value = TypeObj("Alias")
    /\ "Mid" \in Ancestors("Alias") /\ "Mid" # "Alias"

====
